---- MODULE Spec2Model ----
(***************************************************************************)
(* protocol-generator: one run of main (src/protocol-generator/src/main.rs)*)
(* as a state machine.  The run registers three templates, opens and       *)
(* parses the protocol data file, transforms the four connection states    *)
(* and then, state by state, creates protocol/src/packet/<state>.rs and    *)
(* renders five sections into it.  The helper format_packet_id is a pure   *)
(* function and has a specification of its own (SpecPacketId).             *)
(*                                                                         *)
(* The modules backend, frontend, mappings and transformer are declared in *)
(* main.rs (lines 12-15) but their code is not under src/; what main.rs    *)
(* needs from them is modelled from the design text (spec.md sections 3,   *)
(* 4.2, 4.3, 4.4 and 7).                                                   *)
(***************************************************************************)
EXTENDS Integers, Sequences, FiniteSets, TLC

\* ------------------------------------------------------------------ bounds
\* Longest packet list put into the one (phase, direction) group of the
\* schema that is varied.
MaxPackets == 2
\* Packet ids 0..MaxId are given to format_packet_id.
MaxId == 300

\* ------------------------------------------------------- program constants
\* The width in "{:#04X}" (main.rs line 186).
PacketIdWidth == 4

\* ------------------------------------------------------------ small helpers
NoDup(s) == \A a, b \in 1..Len(s) : s[a] = s[b] => a = b

Range(s) == {s[k] : k \in 1..Len(s)}

\* Every order in which the elements of a finite set can be iterated.
Perms(S) ==
    {s \in [1..Cardinality(S) -> S] : \A x \in S : \E k \in 1..Cardinality(S) : s[k] = x}

RECURSIVE Dedup(_)
\* s without repetitions, each element kept at its first occurrence.
Dedup(s) ==
    IF s = <<>> THEN <<>>
    ELSE LET front == Dedup(SubSeq(s, 1, Len(s) - 1))
             last  == s[Len(s)]
         IN IF last \in Range(front) THEN front ELSE Append(front, last)

RECURSIVE Flatten(_)
Flatten(ss) == IF ss = <<>> THEN <<>> ELSE ss[1] \o Flatten(Tail(ss))

\* ------------------------------------------------- frontend::State and names
\* The order of the vec! of main (lines 41-62).
States == <<"Handshake", "Status", "Login", "Game">>

\* frontend::Bound, as format! writes it (lines 119, 124).
Bound == [Server |-> "Server", Client |-> "Client"]

\* Which field of the parsed input main hands to transform_protocol for
\* which state (lines 43-60).
InputSection_swapped(state) ==
    CASE state = "Handshake" -> "handshaking"
      [] state = "Status"    -> "login"
      [] state = "Login"     -> "status"
      [] state = "Game"      -> "game"

InputSection(state) ==
    CASE state = "Handshake" -> "handshaking"
      [] state = "Status"    -> "status"
      [] state = "Login"     -> "login"
      [] state = "Game"      -> "game"

\* state.to_string().to_lowercase() (line 67).
to_lowercase(state) ==
    CASE state = "Handshake" -> "handshake"
      [] state = "Status"    -> "status"
      [] state = "Login"     -> "login"
      [] state = "Game"      -> "game"

\* format!("protocol/src/packet/{}.rs", ...) (lines 65-68).
file_name(state) == <<"protocol/src/packet/", to_lowercase(state), ".rs">>

FileNames == {file_name(States[j]) : j \in 1..Len(States)}

\* The templates create_template_engine registers, in order (lines 84-102).
Templates == <<"packet_imports", "packet_enum", "packet_structs">>

\* The four fixed imports of generate_rust_file (lines 128-133).
BaselineImports ==
    <<"crate::DecodeError", "crate::Decoder", "std::io::Read",
      "minecraft_protocol_derive::Packet">>

\* ------------------------------------------------------ the input document
\* A raw packet declaration: a name and its fields in declared order.
Field(n, t) == [name |-> n, type |-> t]

RawPacket(n, fs) == [name |-> n, fields |-> fs]

\* The packet declarations the varied group is built from: a packet with no
\* field, with one field, with two fields of different types, with a field
\* whose type needs an import that generate_rust_file already lists, and
\* with a field whose type the mapping table does not know.
PacketSamples ==
    { RawPacket("Request", <<>>),
      RawPacket("Response", <<Field("json_response", "string")>>),
      RawPacket("Success", <<Field("uuid", "UUID"), Field("username", "string")>>),
      RawPacket("Payload", <<Field("data", "buffer")>>),
      RawPacket("Custom", <<Field("value", "fooInt24")>>) }

PacketLists == UNION {[1..n -> PacketSamples] : n \in 0..MaxPackets}

SectionKeys == {"handshaking", "status", "login", "game"}

Directions == {"toServer", "toClient"}

\* A well-formed document whose four sections differ from each other.
DefaultSchema ==
    [ handshaking |->
        [ toServer |-> <<RawPacket("SetProtocol", <<Field("next_state", "varint")>>)>>,
          toClient |-> <<>> ],
      status |->
        [ toServer |-> <<RawPacket("PingStart", <<>>),
                         RawPacket("Ping", <<Field("time", "varint")>>)>>,
          toClient |-> <<RawPacket("ServerInfo", <<Field("response", "string")>>)>> ],
      login |->
        [ toServer |-> <<RawPacket("LoginStart", <<Field("username", "string")>>)>>,
          toClient |-> <<RawPacket("Disconnect", <<Field("reason", "string")>>),
                         RawPacket("Compress", <<Field("threshold", "varint")>>)>> ],
      game |->
        [ toServer |-> <<RawPacket("KeepAlive", <<Field("id", "varint")>>)>>,
          toClient |-> <<RawPacket("Login", <<Field("entity_id", "varint")>>),
                         RawPacket("KeepAlive", <<Field("id", "varint")>>)>> ] ]

\* The documents of the model: the default one with one (phase, direction)
\* group replaced by any packet list of at most MaxPackets samples.
Schemas ==
    {[DefaultSchema EXCEPT ![key][dir] = l] :
        key \in SectionKeys, dir \in Directions, l \in PacketLists}

\* What the protocol data file can be: absent, not a valid document, or a
\* document (lines 33-37).
Documents ==
    {[kind |-> "nofile", schema |-> DefaultSchema],
     [kind |-> "malformed", schema |-> DefaultSchema]}
    \cup {[kind |-> "schema", schema |-> s] : s \in Schemas}

\* --------------------------------------- mappings, transformer, frontend IR
NoImport == ""

\* The type mapping table: target type and required import of every
\* primitive it knows.
MappingTable ==
    [ t \in {"varint", "string", "UUID", "buffer"} |->
        CASE t = "varint" -> [target |-> "i32", import |-> NoImport]
          [] t = "string" -> [target |-> "String", import |-> "std::string::String"]
          [] t = "UUID"   -> [target |-> "Uuid", import |-> "uuid::Uuid"]
          [] t = "buffer" -> [target |-> "Vec<u8>", import |-> "std::io::Read"] ]

UnknownTypes(raws) ==
    {k \in 1..Len(raws) :
        \E j \in 1..Len(raws[k].fields) : raws[k].fields[j].type \notin DOMAIN MappingTable}

NameCollisions(raws) ==
    {k \in 1..Len(raws) : \E a \in 1..(k - 1) : raws[a].name = raws[k].name}

\* Whether transform_protocol returns for this section.
transform_ok(section) ==
    \A dir \in Directions :
        UnknownTypes(section[dir]) = {} /\ NameCollisions(section[dir]) = {}

FirstOf(S) == CHOOSE k \in S : \A m \in S : k <= m

\* The error transform_protocol aborts with: its kind, the phase and the
\* packet it is about.
transform_error(state, section) ==
    LET dir  == IF UnknownTypes(section.toServer) \cup NameCollisions(section.toServer) # {}
                THEN "toServer" ELSE "toClient"
        raws == section[dir]
    IN IF UnknownTypes(raws) # {}
       THEN <<"UnknownTypeError", state, raws[FirstOf(UnknownTypes(raws))].name>>
       ELSE <<"NameCollisionError", state, raws[FirstOf(NameCollisions(raws))].name>>

\* The wire id of a packet is its zero-based position in the declared list.
transform_packets(raws) ==
    [ k \in 1..Len(raws) |->
        [ id     |-> k - 1,
          name   |-> raws[k].name,
          fields |-> [ j \in 1..Len(raws[k].fields) |->
                        [ name      |-> raws[k].fields[j].name,
                          data_type |-> MappingTable[raws[k].fields[j].type].target,
                          import    |-> MappingTable[raws[k].fields[j].type].import ] ] ] ]

transform_protocol(state, section) ==
    [ state                |-> state,
      server_bound_packets |-> transform_packets(section.toServer),
      client_bound_packets |-> transform_packets(section.toClient) ]

\* The imports of the fields of a protocol in traversal order: server-bound
\* packets first, each packet's fields in declared order.
FieldImports(protocol) ==
    LET packets == protocol.server_bound_packets \o protocol.client_bound_packets
        all     == Flatten([k \in 1..Len(packets) |->
                              [j \in 1..Len(packets[k].fields) |-> packets[k].fields[j].import]])
    IN SelectSeq(all, LAMBDA x : x # NoImport)

FirstSeenImports(protocol) == Dedup(FieldImports(protocol))

\* Protocol::data_type_imports: the collection of the imports the fields
\* need, each held once.  Its iteration order is not fixed by its contents.
data_type_imports(protocol) == Range(FieldImports(protocol))

\* ------------------------------------------------------------------- state
VARIABLES
    doc,              \* the protocol data file on disk
    pc,               \* where main is
    template_engine,  \* the template names registered so far
    protocol_input,   \* <<>> or <<the parsed document>>
    protocols,        \* the vec! of (protocol, state) built so far
    i,                \* how many iterations of the for loop have begun
    step,             \* how many render calls of the current generate_rust_file returned
    files0,           \* the output files as the run found them
    files,            \* the output files now
    failure,          \* the panic message, <<>> while there is none
    trace,            \* the steps attempted so far
    h_pc,             \* format_packet_id: "idle", "call" or "done"
    h_param,          \* format_packet_id: parameter 0 of the helper call
    h_out,            \* format_packet_id: what was written to out
    h_res             \* format_packet_id: "none", "ok" or "err"

vars ==
    <<doc, pc, template_engine, protocol_input, protocols, i, step, files0, files,
      failure, trace, h_pc, h_param, h_out, h_res>>

mainVars ==
    <<doc, pc, template_engine, protocol_input, protocols, i, step, files0, files,
      failure, trace>>

helperVars == <<h_pc, h_param, h_out, h_res>>

\* ----------------------------------------------------------- output files
NoFile == [exists |-> FALSE, sections |-> <<>>]

\* A file left by an earlier, complete run.
OldFile ==
    [exists |-> TRUE,
     sections |-> <<[template |-> "earlier run", packet_enum_name |-> <<>>,
                     packets |-> <<>>, imports |-> <<>>, complete |-> TRUE]>>]

\* File::create: the file exists and is empty (line 69).
CreatedFile == [exists |-> TRUE, sections |-> <<>>]

\* ------------------------------------------------------ generate_rust_file
\* GenerateContext of the server-bound packets (lines 118-121).
server_bound_ctx_reversed(protocol) ==
    [ packet_enum_name |-> <<protocol.state, Bound.Server, "BoundPacket">>,
      packets |-> [k \in 1..Len(protocol.server_bound_packets) |->
                     protocol.server_bound_packets[Len(protocol.server_bound_packets) + 1 - k]] ]

server_bound_ctx(protocol) ==
    [ packet_enum_name |-> <<protocol.state, Bound.Server, "BoundPacket">>,
      packets |-> protocol.server_bound_packets ]

\* GenerateContext of the client-bound packets (lines 123-126).
client_bound_ctx(protocol) ==
    [ packet_enum_name |-> <<protocol.state, Bound.Client, "BoundPacket">>,
      packets |-> protocol.client_bound_packets ]

\* The import list: the baseline imports extended by the data-type imports
\* in the order the collection is iterated in (lines 128-135).
imports_list(order) == BaselineImports \o order

ImportsSection(imports) ==
    [template |-> "packet_imports", packet_enum_name |-> <<>>, packets |-> <<>>,
     imports |-> imports, complete |-> TRUE]

CtxSection(template, ctx) ==
    [template |-> template, packet_enum_name |-> ctx.packet_enum_name,
     packets |-> ctx.packets, imports |-> <<>>, complete |-> TRUE]

\* The five render_to_write calls in order (lines 137-147): what each one
\* writes when it returns Ok.
render_calls_structs_first(protocol, order) ==
    << ImportsSection(imports_list(order)),
       CtxSection("packet_structs", server_bound_ctx(protocol)),
       CtxSection("packet_structs", client_bound_ctx(protocol)),
       CtxSection("packet_enum", server_bound_ctx(protocol)),
       CtxSection("packet_enum", client_bound_ctx(protocol)) >>

render_calls(protocol, order) ==
    << ImportsSection(imports_list(order)),
       CtxSection("packet_enum", server_bound_ctx(protocol)),
       CtxSection("packet_enum", client_bound_ctx(protocol)),
       CtxSection("packet_structs", server_bound_ctx(protocol)),
       CtxSection("packet_structs", client_bound_ctx(protocol)) >>

\* ------------------------------------------------------------ control flow
\* Result::expect (lines 34, 37, 69, 72, 88, 95, 102): Ok goes on, Err
\* panics and ends the run.
expect_ignoring(ok, next) == next

expect(ok, next) == IF ok THEN next ELSE "failed"

\* The vec! of line 41 is complete before the for loop of line 64 begins.
after_transform_eager(n) == "create"

after_transform(n) == IF n = Len(States) THEN "create" ELSE "transform"

\* The for loop of lines 64-73 goes to the next pair or main returns.
after_generate(done, n) == IF done < n THEN "create" ELSE "done"

Event(s, arg, k, ok) == [step |-> s, arg |-> arg, k |-> k, ok |-> ok]

\* -------------------------------------------------------------------- Init
HelperIdle ==
    /\ h_pc = "idle"
    /\ h_param = [kind |-> "missing", v |-> 0]
    /\ h_out = <<>>
    /\ h_res = "none"

Init ==
    /\ doc \in Documents
    /\ pc = "register"
    /\ template_engine = <<>>
    /\ protocol_input = <<>>
    /\ protocols = <<>>
    /\ i = 0
    /\ step = 0
    /\ files0 \in {[f \in FileNames |-> NoFile], [f \in FileNames |-> OldFile]}
    /\ files = files0
    /\ failure = <<>>
    /\ trace = <<>>
    /\ HelperIdle

\* ----------------------------------------------------------------- actions
\* create_template_engine: one register_template_file(..).expect(..)
\* (lines 83-102).
RegisterTemplate ==
    /\ pc = "register"
    /\ \E ok \in BOOLEAN :
        LET name == Templates[Len(template_engine) + 1] IN
        /\ template_engine' = IF ok THEN Append(template_engine, name) ELSE template_engine
        /\ pc' = expect(ok, IF Len(template_engine) + 1 = Len(Templates)
                            THEN "open" ELSE "register")
        /\ failure' = IF ok THEN failure
                      ELSE <<"Failed to register template", "TemplateFileError">>
        /\ trace' = Append(trace, Event("register", <<name>>, 0, ok))
    /\ UNCHANGED <<doc, protocol_input, protocols, i, step, files0, files>>
    /\ UNCHANGED helperVars

\* File::open(protocol_data_file_name).expect(..) (lines 33-34).
OpenDataFile ==
    /\ pc = "open"
    /\ LET ok == doc.kind # "nofile" IN
        /\ pc' = expect(ok, "parse")
        /\ failure' = IF ok THEN failure
                      ELSE <<"Failed to open protocol data file", "NotFound">>
        /\ trace' = Append(trace, Event("open", <<>>, 0, ok))
    /\ UNCHANGED <<doc, template_engine, protocol_input, protocols, i, step, files0, files>>
    /\ UNCHANGED helperVars

\* serde_json::from_reader(protocol_data_file).expect(..) (lines 36-37).
ParseData ==
    /\ pc = "parse"
    /\ LET ok == doc.kind = "schema" IN
        /\ protocol_input' = IF ok THEN <<doc.schema>> ELSE protocol_input
        /\ pc' = expect(ok, "transform")
        /\ failure' = IF ok THEN failure
                      ELSE <<"Failed to parse protocol data", "SchemaFormatError">>
        /\ trace' = Append(trace, Event("parse", <<>>, 0, ok))
    /\ UNCHANGED <<doc, template_engine, protocols, i, step, files0, files>>
    /\ UNCHANGED helperVars

\* One element of the vec!: transform_protocol(&mappings, state, section)
\* (lines 42-61).
TransformProtocol ==
    /\ pc = "transform"
    /\ protocol_input # <<>>
    /\ Len(protocols) < Len(States)
    /\ LET state   == States[Len(protocols) + 1]
           section == protocol_input[1][InputSection(state)]
           ok      == transform_ok(section)
       IN
        /\ protocols' = IF ok
                        THEN Append(protocols,
                                    [protocol |-> transform_protocol(state, section),
                                     state |-> state])
                        ELSE protocols
        /\ pc' = IF ok THEN after_transform(Len(protocols) + 1) ELSE "failed"
        /\ failure' = IF ok THEN failure ELSE transform_error(state, section)
        /\ trace' = Append(trace, Event("transform", <<state>>, 0, ok))
    /\ UNCHANGED <<doc, template_engine, protocol_input, i, step, files0, files>>
    /\ UNCHANGED helperVars

\* The head of one loop iteration: File::create(file_name).expect(..)
\* (lines 64-69).
CreateFile ==
    /\ pc = "create"
    /\ i < Len(protocols)
    /\ \E ok \in BOOLEAN :
        LET name == file_name(protocols[i + 1].state) IN
        /\ files' = IF ok THEN [files EXCEPT ![name] = CreatedFile] ELSE files
        /\ pc' = expect(ok, "render")
        /\ failure' = IF ok THEN failure ELSE <<"Failed to create file", "PermissionDenied">>
        /\ trace' = Append(trace, Event("create", name, 0, ok))
    /\ i' = i + 1
    /\ step' = 0
    /\ UNCHANGED <<doc, template_engine, protocol_input, protocols, files0>>
    /\ UNCHANGED helperVars

\* One render_to_write(..)? of generate_rust_file, and on Err the expect of
\* main (lines 71-72, 137-149).  A call that fails has written nothing or a
\* part of its section.
RenderSection ==
    /\ pc = "render"
    /\ step < Len(Templates) + 2
    /\ LET protocol == protocols[i].protocol
           name     == file_name(protocols[i].state)
       IN \E order \in Perms(data_type_imports(protocol)), ok \in BOOLEAN, part \in BOOLEAN :
            LET section == render_calls(protocol, order)[step + 1]
                written == IF ok THEN <<section>>
                           ELSE IF part THEN <<[section EXCEPT !.complete = FALSE]>>
                           ELSE <<>>
            IN
            /\ files' = [files EXCEPT ![name].sections = @ \o written]
            /\ pc' = expect(ok, IF step + 1 = Len(render_calls(protocol, order))
                                THEN after_generate(i, Len(protocols)) ELSE "render")
            /\ failure' = IF ok THEN failure
                          ELSE <<"Failed to generate rust file", "TemplateRenderError">>
            /\ trace' = Append(trace, Event("render", name, step + 1, ok))
    /\ step' = step + 1
    /\ UNCHANGED <<doc, template_engine, protocol_input, protocols, i, files0>>
    /\ UNCHANGED helperVars

Next ==
    \/ RegisterTemplate
    \/ OpenDataFile
    \/ ParseData
    \/ TransformProtocol
    \/ CreateFile
    \/ RenderSection

Spec == Init /\ [][Next]_vars

\* ------------------------------------------------- vocabulary of the claims
LastEvent == trace[Len(trace)]

FailedAt(steps) == pc = "failed" /\ trace # <<>> /\ ~LastEvent.ok /\ LastEvent.step \in steps

EmissionEvents == {k \in 1..Len(trace) : trace[k].step \in {"create", "render"}}

RenderTemplates == <<"packet_imports", "packet_enum", "packet_enum", "packet_structs", "packet_structs">>

\* A file that holds the import list, both enumerations and both struct
\* sections, each whole.
CompleteFile(file) ==
    /\ file.exists
    /\ Len(file.sections) = Len(RenderTemplates)
    /\ \A k \in 1..Len(file.sections) :
        file.sections[k].complete /\ file.sections[k].template = RenderTemplates[k]

\* generate_rust_file returned Ok for the j-th pair of the vec!.
Generated(j) ==
    \E k \in 1..Len(trace) :
        /\ trace[k].step = "render" /\ trace[k].ok
        /\ trace[k].k = Len(RenderTemplates)
        /\ j <= Len(protocols) /\ trace[k].arg = file_name(protocols[j].state)

StateIndex(name) == CHOOSE j \in 1..Len(States) : file_name(States[j]) = name

\* The packet list the document declares for a state and a direction.
DeclaredList(state, bound) ==
    doc.schema[InputSection(state)][IF bound = Bound.Server THEN "toServer" ELSE "toClient"]

Names(packets) == [k \in 1..Len(packets) |-> packets[k].name]

\* ---------------------------------------------------------------------- C1
\* C1: no output file is created or written before every template is
\* registered, the data file is opened and parsed and all four states are
\* transformed; a run that fails in one of those steps has created and
\* modified no output file.
C1_NoOutputBeforeAllTransformed ==
    /\ (files # files0 \/ EmissionEvents # {}) =>
        /\ template_engine = Templates
        /\ \E k \in 1..Len(trace) : trace[k].step = "open" /\ trace[k].ok
        /\ \E k \in 1..Len(trace) : trace[k].step = "parse" /\ trace[k].ok
        /\ protocol_input = <<doc.schema>>
        /\ Len(protocols) = Len(States)
    /\ FailedAt({"register", "open", "parse", "transform"}) =>
        files = files0 /\ EmissionEvents = {}

\* A run that aborted in the transformation of the third state, after two
\* states were transformed, and left the files existing before untouched.
C1_Witness ==
    /\ FailedAt({"transform"})
    /\ Len(protocols) = 2
    /\ files0[file_name("Handshake")].exists
    /\ files = files0

\* ---------------------------------------------------------------------- C2
\* C2: after a run that fails during emission (File::create or one of the
\* five render calls), every output path is untouched or holds the complete
\* five sections.
C2_NoPartialOutput ==
    FailedAt({"create", "render"}) =>
        \A name \in FileNames : files[name] = files0[name] \/ CompleteFile(files[name])

\* ---------------------------------------------------------------------- C3
\* C3: the run is fail-fast without retries: a failed step is the last step
\* of the run and puts it in the failed outcome, no step is
\* attempted twice, and a run that ends successfully had no failed step.
C3_FailFast ==
    /\ \A k \in 1..(Len(trace) - 1) : trace[k].ok
    /\ \A a, b \in 1..Len(trace) :
        (trace[a].step = trace[b].step /\ trace[a].arg = trace[b].arg
            /\ trace[a].k = trace[b].k) => a = b
    /\ (trace # <<>> /\ ~LastEvent.ok) <=> pc = "failed"
    /\ pc = "failed" <=> failure # <<>>
    /\ pc = "done" => \A k \in 1..Len(trace) : trace[k].ok

\* A run that failed in the third render call of the second file: the first
\* file is written, the files of Login and Game are as they were.
C3_Witness ==
    /\ FailedAt({"render"})
    /\ LastEvent.arg = file_name("Status") /\ LastEvent.k = 3
    /\ CompleteFile(files[file_name("Handshake")])
    /\ files[file_name("Login")] = files0[file_name("Login")]
    /\ files[file_name("Game")] = files0[file_name("Game")]

\* ---------------------------------------------------------------------- C4
\* C4: when the run aborts while transforming or emitting a phase, the
\* failure value reported at the top level identifies that phase.
C4_FailureNamesPhase ==
    FailedAt({"transform", "create", "render"}) =>
        LET phase == IF LastEvent.step = "transform" THEN LastEvent.arg[1]
                     ELSE States[StateIndex(LastEvent.arg)]
        IN phase \in Range(failure)

C7_NoDuplicateImport ==
    \A name \in FileNames : \A n \in 1..Len(files[name].sections) :
        files[name].sections[n].template = "packet_imports" =>
            NoDup(files[name].sections[n].imports)

C9_FiveSectionsInOrder ==
    \A j \in 1..Len(protocols) : Generated(j) =>
        LET protocol == protocols[j].protocol
            sections == files[file_name(protocols[j].state)].sections
            server   == <<protocol.state, "Server", "BoundPacket">>
            client   == <<protocol.state, "Client", "BoundPacket">>
        IN
        /\ Len(sections) = 5
        /\ \A n \in 1..Len(sections) : sections[n].complete
        /\ sections[1].template = "packet_imports"
        /\ SubSeq(sections[1].imports, 1, Len(BaselineImports)) = BaselineImports
        /\ sections[2].template = "packet_enum" /\ sections[3].template = "packet_enum"
        /\ sections[4].template = "packet_structs" /\ sections[5].template = "packet_structs"
        /\ sections[2].packet_enum_name = server /\ sections[4].packet_enum_name = server
        /\ sections[3].packet_enum_name = client /\ sections[5].packet_enum_name = client
        /\ sections[2].packet_enum_name # sections[3].packet_enum_name
        /\ sections[2].packets = protocol.server_bound_packets
        /\ sections[4].packets = protocol.server_bound_packets
        /\ sections[3].packets = protocol.client_bound_packets
        /\ sections[5].packets = protocol.client_bound_packets

\* generate_rust_file returned Ok for a protocol whose two packet lists
\* differ and are both not empty.
C9_Witness ==
    \E j \in 1..Len(protocols) :
        /\ Generated(j)
        /\ protocols[j].protocol.server_bound_packets # <<>>
        /\ protocols[j].protocol.client_bound_packets # <<>>
        /\ Names(protocols[j].protocol.server_bound_packets)
            # Names(protocols[j].protocol.client_bound_packets)

\* --------------------------------------------------------------------- C10
\* C10: a successful run created exactly four files, one per state, in the
\* order Handshake, Status, Login, Game, each once; it wrote no file after
\* the file of a later state was created; and the file of a state holds the
\* packets of that state's section of the document (handshaking, status,
\* login, game).
C10_FourFilesInOrder ==
    pc = "done" =>
        LET creates == SelectSeq(trace, LAMBDA e : e.step = "create")
            keys    == <<"handshaking", "status", "login", "game">>
        IN
        /\ [k \in 1..Len(creates) |-> creates[k].arg]
            = <<file_name("Handshake"), file_name("Status"),
                file_name("Login"), file_name("Game")>>
        /\ \A a, b \in 1..Len(trace) :
            (a < b /\ trace[a].step = "create" /\ trace[b].step = "render")
                => StateIndex(trace[b].arg) >= StateIndex(trace[a].arg)
        /\ \A j \in 1..Len(States) :
            LET sections == files[file_name(States[j])].sections IN
            /\ CompleteFile(files[file_name(States[j])])
            /\ sections[2].packet_enum_name[1] = States[j]
            /\ Names(sections[2].packets) = Names(doc.schema[keys[j]].toServer)
            /\ Names(sections[3].packets) = Names(doc.schema[keys[j]].toClient)
            /\ Names(sections[4].packets) = Names(doc.schema[keys[j]].toServer)
            /\ Names(sections[5].packets) = Names(doc.schema[keys[j]].toClient)

\* A successful run that replaced four files of an earlier run.
C10_Witness ==
    /\ pc = "done"
    /\ \A name \in FileNames : files0[name].exists /\ files[name] # files0[name]

\* -------------------------------------------------------- format_packet_id
\* The digits of {:X}.
UpperHexDigits ==
    <<"0", "1", "2", "3", "4", "5", "6", "7", "8", "9", "A", "B", "C", "D", "E", "F">>

RECURSIVE UpperHex(_)
\* An unsigned integer in uppercase hexadecimal, without leading zeros.
UpperHex(n) ==
    IF n < Len(UpperHexDigits) THEN <<UpperHexDigits[n + 1]>>
    ELSE Append(UpperHex(n \div Len(UpperHexDigits)), UpperHexDigits[(n % Len(UpperHexDigits)) + 1])

Zeros(n) == [k \in 1..n |-> "0"]

\* format!("{:#04X}", id) (line 186): the prefix 0x, then the digits, with
\* zeros between them while the whole text is shorter than the width.
format_alternate_upper_hex_digits_padded(id, width) ==
    LET digits == UpperHex(id)
        pad    == IF Len(digits) < width THEN width - Len(digits) ELSE 0
    IN <<"0", "x">> \o Zeros(pad) \o digits

format_alternate_upper_hex(id, width) ==
    LET digits == UpperHex(id)
        prefix == <<"0", "x">>
        pad    == IF Len(prefix) + Len(digits) < width
                  THEN width - (Len(prefix) + Len(digits)) ELSE 0
    IN prefix \o Zeros(pad) \o digits

\* h.param(0).and_then(|v| v.value().as_u64()) (lines 179-181): <<>> is
\* None, <<n>> is Some(n).
as_u64(param) ==
    IF param.kind = "number" /\ param.v >= 0 THEN <<param.v>> ELSE <<>>

\* The ids tried: every id up to MaxId and some of three, four and five
\* digits.
IdSamples == (0..MaxId) \cup {4095, 4096, 65535, 65536}

\* Parameter 0 of a helper call: absent, a JSON value that is no number, a
\* floating point number, a negative integer or an unsigned integer.
Params ==
    {[kind |-> k, v |-> 0] : k \in {"missing", "null", "string", "bool"}}
    \cup {[kind |-> "float", v |-> n] : n \in {0, 1, 255}}
    \cup {[kind |-> "number", v |-> 0 - n] : n \in {1, 2, 255}}
    \cup {[kind |-> "number", v |-> n] : n \in IdSamples}

MainIdle ==
    /\ doc = [kind |-> "nofile", schema |-> DefaultSchema]
    /\ pc = "idle"
    /\ template_engine = Templates
    /\ protocol_input = <<>>
    /\ protocols = <<>>
    /\ i = 0
    /\ step = 0
    /\ files0 = [f \in FileNames |-> NoFile]
    /\ files = files0
    /\ failure = <<>>
    /\ trace = <<>>

InitPacketId ==
    /\ MainIdle
    /\ h_pc = "call"
    /\ h_param \in Params
    /\ h_out = <<>>
    /\ h_res = "none"

\* One call of the helper (lines 172-190): the error of line 182, or the
\* text written by line 188, or the error of that write.
FormatPacketId ==
    /\ h_pc = "call"
    /\ LET id == as_u64(h_param) IN
        IF id = <<>>
        THEN /\ h_res' = "err"
             /\ h_out' = h_out
        ELSE \E written \in BOOLEAN :
             /\ h_res' = IF written THEN "ok" ELSE "err"
             /\ h_out' = IF written
                         THEN h_out \o format_alternate_upper_hex(id[1], PacketIdWidth)
                         ELSE h_out
    /\ h_pc' = "done"
    /\ UNCHANGED h_param
    /\ UNCHANGED mainVars

NextPacketId == FormatPacketId

SpecPacketId == InitPacketId /\ [][NextPacketId]_vars

\* ---------------------------------------------------------------------- C6
RECURSIVE HexValue(_)
\* The number a text of uppercase hexadecimal digits stands for.
HexValue(digits) ==
    IF digits = <<>> THEN 0
    ELSE HexValue(SubSeq(digits, 1, Len(digits) - 1)) * 16
         + (CHOOSE d \in 0..15 : UpperHexDigits[d + 1] = digits[Len(digits)])

\* C6: for an unsigned integer the helper writes 0x and the id in uppercase
\* hexadecimal, at least two digits, padded with zeros and never truncated
\* (0 gives 0x00, 255 gives 0xFF, 256 gives 0x100), so the id can be read
\* back from the text and distinct ids give distinct texts; for a parameter
\* that is missing or no unsigned integer it returns an error and writes
\* nothing.
C6_PacketIdText ==
    h_pc = "done" =>
        IF h_param.kind = "number" /\ h_param.v >= 0
        THEN /\ h_res \in {"ok", "err"}
             /\ h_res = "err" => h_out = <<>>
             /\ h_res = "ok" =>
                LET digits == SubSeq(h_out, 3, Len(h_out)) IN
                /\ Len(h_out) >= 4
                /\ h_out[1] = "0" /\ h_out[2] = "x"
                /\ \A k \in 1..Len(digits) : digits[k] \in Range(UpperHexDigits)
                /\ HexValue(digits) = h_param.v
                /\ Len(digits) > 2 => digits[1] # "0"
                /\ h_param.v = 0 => h_out = <<"0", "x", "0", "0">>
                /\ h_param.v = 255 => h_out = <<"0", "x", "F", "F">>
                /\ h_param.v = 256 => h_out = <<"0", "x", "1", "0", "0">>
        ELSE h_res = "err" /\ h_out = <<>>

\* The helper wrote the text of id 256, which has more than two digits.
C6_Witness ==
    /\ h_pc = "done" /\ h_res = "ok"
    /\ h_param = [kind |-> "number", v |-> 256]
    /\ Len(h_out) = 5
====
